---- MODULE Spec2Model ----
(***************************************************************************)
(* Model of create_new_year_including_opening_transactions.py: a new       *)
(* GnuCash book is made from the previous year's book by copying the file, *)
(* destroying every transaction of the copy and adding one opening         *)
(* transaction per carried-forward balance.                                *)
(*                                                                         *)
(* A book is a record                                                      *)
(*   accounts     : function 0..n -> account record (0 is the root),       *)
(*   splits       : sequence of split records,                             *)
(*   transactions : set of transaction records.                            *)
(* Account names and full names are strings, kept as sequences of tokens;  *)
(* the token "." is the account separator.                                 *)
(*                                                                         *)
(* Domain of the previous-year books: account names hold no separator and  *)
(* are unique among siblings (so full names are unique), and every         *)
(* transaction has at least one split.                                     *)
(***************************************************************************)
EXTENDS Integers, Sequences, FiniteSets, TLC

\* ---------------------------------------------------------------- bounds
MaxAccounts == 2      \* accounts below the root in the previous-year book
MaxSplits == 2        \* splits in the previous-year book

\* ------------------------------------------------------------- constants
ACCT_TYPE_ASSET == "ASSET"
ACCT_TYPE_LIABILITY == "LIABILITY"
ACCT_TYPE_EQUITY == "EQUITY"
ACCT_TYPE_INCOME == "INCOME"
ACCT_TYPE_EXPENSE == "EXPENSE"
ACCT_TYPE_TRADING == "TRADING"
ACCT_TYPE_ROOT == "ROOT"

\* The list without the trading accounts.
ACCOUNT_TYPES_TO_EXCLUDE_NoTrading ==
    {ACCT_TYPE_INCOME, ACCT_TYPE_EXPENSE, ACCT_TYPE_ROOT, ACCT_TYPE_EQUITY}

ACCOUNT_TYPES_TO_EXCLUDE ==
    {ACCT_TYPE_INCOME, ACCT_TYPE_EXPENSE, ACCT_TYPE_TRADING, ACCT_TYPE_ROOT, ACCT_TYPE_EQUITY}

NoAccount == -1                 \* Python None where an account is expected
NoTransaction == 0              \* Python None where a transaction is expected
NoCommodity == "NONE"           \* an account that has no commodity
SEP == "."                      \* the account separator of the full names
RequiredKeys == {"equity_name", "equity_opening_name", "opening_transaction_text", "currency"}
OpeningDate == "opening_date"

\* ------------------------------------------------------- account trees
NumAccounts(accounts) == Cardinality(DOMAIN accounts) - 1

RECURSIVE ChildrenFrom(_, _, _)
ChildrenFrom(accounts, account, i) ==
    IF i > NumAccounts(accounts) THEN <<>>
    ELSE (IF accounts[i].parent = account THEN <<i>> ELSE <<>>)
            \o ChildrenFrom(accounts, account, i + 1)

get_children(accounts, account) == ChildrenFrom(accounts, account, 1)

RECURSIVE walk(_, _), WalkChildren(_, _)
walk(accounts, account) ==
    <<account>> \o WalkChildren(accounts, get_children(accounts, account))
WalkChildren(accounts, children) ==
    IF children = <<>> THEN <<>>
    ELSE walk(accounts, Head(children)) \o WalkChildren(accounts, Tail(children))

get_descendants(accounts, account) == Tail(walk(accounts, account))

RECURSIVE get_full_name(_, _)
get_full_name(accounts, account) ==
    IF account = 0 THEN <<>>
    ELSE IF accounts[account].parent = 0 THEN accounts[account].name
    ELSE get_full_name(accounts, accounts[account].parent) \o <<SEP>> \o accounts[account].name

\* The names between the separators of a full name, in order.
RECURSIVE SplitNames(_, _)
SplitNames(str, cur) ==
    IF str = <<>> THEN <<cur>>
    ELSE IF Head(str) = SEP THEN <<cur>> \o SplitNames(Tail(str), <<>>)
    ELSE SplitNames(Tail(str), Append(cur, Head(str)))

RECURSIVE LookupHelper(_, _, _)
LookupHelper(accounts, children, names) ==
    IF children = <<>> THEN NoAccount
    ELSE LET child == Head(children)
             found == IF accounts[child].name # Head(names) THEN NoAccount
                      ELSE IF Len(names) = 1 THEN child
                      ELSE LookupHelper(accounts, get_children(accounts, child), Tail(names))
         IN IF found # NoAccount THEN found
            ELSE LookupHelper(accounts, Tail(children), names)

lookup_by_full_name(accounts, name) ==
    IF name = <<>> THEN NoAccount
    ELSE LookupHelper(accounts, get_children(accounts, 0), SplitNames(name, <<>>))

append_child(accounts, parent, child) ==
    LET n == NumAccounts(accounts) + 1
    IN [i \in 0..n |-> IF i < n THEN accounts[i] ELSE [child EXCEPT !.parent = parent]]

\* ------------------------------------------------------------ balances
RECURSIVE SumAmounts(_, _)
SumAmounts(splits, account) ==
    IF splits = <<>> THEN 0
    ELSE (IF Head(splits).account = account THEN Head(splits).amount ELSE 0)
            + SumAmounts(Tail(splits), account)

GetBalance(book, account) == SumAmounts(book.splits, account)

\* balances[key] = value on a Python dict kept as a sequence of items in
\* insertion order: an existing key keeps its place.
DictSet(balances, key, value) ==
    IF \E i \in 1..Len(balances) : balances[i].name = key
    THEN [i \in 1..Len(balances) |->
             IF balances[i].name = key THEN [name |-> key, balance |-> value] ELSE balances[i]]
    ELSE Append(balances, [name |-> key, balance |-> value])

RECURSIVE CollectBalances(_, _, _)
CollectBalances(book, accs, balances) ==
    IF accs = <<>> THEN balances
    ELSE LET acc == Head(accs)
         IN IF book.accounts[acc].placeholder
            THEN CollectBalances(book, Tail(accs), balances)
            ELSE IF book.accounts[acc].type \in ACCOUNT_TYPES_TO_EXCLUDE
            THEN CollectBalances(book, Tail(accs), balances)
            ELSE CollectBalances(book, Tail(accs),
                     DictSet(balances, get_full_name(book.accounts, acc), GetBalance(book, acc)))

get_account_balances(book) == CollectBalances(book, walk(book.accounts, 0), <<>>)

\* --------------------------------------------------------------- prices
\* The price database of the book: one USD is two EUR.
convert_balance_nearest_price_t64(balance, from, to) ==
    IF from = to THEN balance
    ELSE IF from = "USD" /\ to = "EUR" THEN balance * 2
    ELSE IF from = "EUR" /\ to = "USD" THEN balance \div 2
    ELSE 0

\* The equity split booked with the sign of the asset split.
neg_Forgotten(x) == x

neg(x) == 0 - x

\* ------------------------------------------------------------------ state
VARIABLES
    prev_file,                   \* the previous year's file: a book
    new_file,                    \* the new year's file: [exists, book]
    pc,                          \* position of the running process, "idle" between runs
    config,                      \* the config dictionary of the run
    session_new,                 \* [state, book]: the session on new_file
    session_prev,                \* [state, book]: the session on previous_file
    account_balances,            \* the dict returned by get_account_balances
    equity_placeholder_account,
    equity_account,
    purge_accounts,              \* prepare_new_year_file: accounts still to purge
    purge_splits,                \* prepare_new_year_file: splits still to visit
    item,                        \* main: index of the next item of account_balances
    error,                       \* the exception that ended the run
    exit_code,                   \* exit status of the process
    saved,                       \* session_new.save() was called in this run
    copied,                      \* shutil.copyfile was called in this run
    files_at_start               \* the two files as the run found them

vars == <<prev_file, new_file, pc, config, session_new, session_prev, account_balances,
          equity_placeholder_account, equity_account, purge_accounts, purge_splits, item, error,
          exit_code, saved, copied, files_at_start>>

EmptyBook == [accounts |-> <<>>, splits |-> <<>>, transactions |-> {}]
NoFile == [exists |-> FALSE, book |-> EmptyBook]
NoSession == [state |-> "none", book |-> EmptyBook]
NoFiles == [previous_file |-> EmptyBook, new_file |-> NoFile]

\* ----------------------------------------------------------------- inputs
Commodities == {"EUR", "USD"}
Amounts == {2, -2}
AccountName(i) == <<"A" \o ToString(i)>>

RootAccount ==
    [name |-> <<"Root Account">>, parent |-> NoAccount, type |-> ACCT_TYPE_ROOT,
     placeholder |-> FALSE, commodity |-> NoCommodity]

\* Account trees of n accounts below the root. An account's parent has a smaller
\* number, so the children of an account are in the order of their numbers.
ParentMaps(n) == { f \in [1..n -> 0..(n - 1)] : \A i \in 1..n : f[i] < i }

AccountTrees(n, kinds, commodities) ==
    { [i \in 0..n |->
          IF i = 0 THEN RootAccount
          ELSE [name |-> AccountName(i), parent |-> p[i], type |-> k[i][1],
                placeholder |-> k[i][2], commodity |-> k[i][3]]] :
        p \in ParentMaps(n), k \in [1..n -> kinds \X BOOLEAN \X commodities] }

OldTransaction(t) ==
    [id |-> t, description |-> "old", currency |-> "EUR", date |-> "old_date"]

BookOf(accs, spl) ==
    [accounts |-> accs, splits |-> spl,
     transactions |-> { OldTransaction(spl[i].parent) :
                            i \in { j \in 1..Len(spl) : spl[j].parent # NoTransaction } }]

\* One split, in a transaction of its own, on every account whose balance is not zero.
RECURSIVE SplitsOfBalances(_, _, _)
SplitsOfBalances(balance, i, n) ==
    IF i > n THEN <<>>
    ELSE (IF balance[i] = 0 THEN <<>>
          ELSE <<[id |-> i, account |-> i, parent |-> i, amount |-> balance[i],
                  value |-> balance[i]]>>)
            \o SplitsOfBalances(balance, i + 1, n)

\* Split lists of at most MaxSplits splits on n accounts, in account order; a
\* split's parent is transaction 1 or none.
SplitLists(n) ==
    UNION { { [i \in 1..k |-> [id |-> i, account |-> s[i][1], parent |-> s[i][2],
                               amount |-> s[i][3], value |-> s[i][3]]] :
                s \in { t \in [1..k -> (1..n) \X {NoTransaction, 1} \X Amounts] :
                            \A i \in 1..(k - 1) : t[i][1] <= t[i + 1][1] } } :
            k \in 0..MaxSplits }

\* Books whose accounts vary in type, placeholder flag, commodity and balance.
AttributeBooks ==
    { BookOf(a, SplitsOfBalances(b, 1, MaxAccounts)) :
        a \in { t \in AccountTrees(MaxAccounts, {ACCT_TYPE_ASSET, ACCT_TYPE_EQUITY}, Commodities) :
                  \A i \in 1..MaxAccounts : ~(t[i].type = ACCT_TYPE_EQUITY /\ t[i].placeholder) },
        b \in [1..MaxAccounts -> {0, 2}] }

\* Books whose splits vary: several splits of one transaction, splits without a
\* parent transaction, balances that cancel.
LedgerBooks ==
    { BookOf(a, s) :
        a \in { t \in AccountTrees(MaxAccounts, {ACCT_TYPE_ASSET}, {"USD"}) :
                  \A i \in 1..MaxAccounts : ~t[i].placeholder },
        s \in SplitLists(MaxAccounts) }

PrevBooks == AttributeBooks \cup LedgerBooks

\* Books for get_account_balances alone: every account type.
BalanceBooks ==
    { BookOf(a, SplitsOfBalances(b, 1, MaxAccounts)) :
        a \in AccountTrees(MaxAccounts,
                 {ACCT_TYPE_ASSET, ACCT_TYPE_LIABILITY, ACCT_TYPE_EQUITY, ACCT_TYPE_INCOME,
                  ACCT_TYPE_EXPENSE, ACCT_TYPE_TRADING}, {"EUR"}),
        b \in [1..MaxAccounts -> {0, 2}] }

CompleteConfig(equity) ==
    [equity_name |-> equity, equity_opening_name |-> AccountName(2),
     opening_transaction_text |-> <<"Opening Balance">>, currency |-> "EUR"]

Without(cfg, key) == [k \in (DOMAIN cfg) \ {key} |-> cfg[k]]

Configs ==
    {CompleteConfig(AccountName(1)), CompleteConfig(<<"Equity">>)}
        \cup { Without(CompleteConfig(<<"Equity">>), k) : k \in RequiredKeys }

Init ==
    /\ prev_file \in PrevBooks
    /\ new_file = NoFile
    /\ pc = "idle"
    /\ config = CompleteConfig(<<"Equity">>)
    /\ session_new = NoSession
    /\ session_prev = NoSession
    /\ account_balances = <<>>
    /\ equity_placeholder_account = NoAccount
    /\ equity_account = NoAccount
    /\ purge_accounts = <<>>
    /\ purge_splits = <<>>
    /\ item = 1
    /\ error = "none"
    /\ exit_code = "none"
    /\ saved = FALSE
    /\ copied = FALSE
    /\ files_at_start = NoFiles

\* ------------------------------------------------------------- operations
\* The variables of one process, as they are when no process runs.
ProcessReset ==
    /\ session_new' = NoSession
    /\ session_prev' = NoSession
    /\ account_balances' = <<>>
    /\ equity_placeholder_account' = NoAccount
    /\ equity_account' = NoAccount
    /\ purge_accounts' = <<>>
    /\ purge_splits' = <<>>
    /\ item' = 1
    /\ saved' = FALSE
    /\ copied' = FALSE

\* An exception leaves main and reaches the handler of __main__, which logs it
\* and exits with status 1.
Terminate(e) ==
    /\ pc' = "exited"
    /\ error' = e
    /\ exit_code' = "1"

\* The currency read with a default instead of a lookup that raises.
KeyError_CurrencyOptional(cfg) == \E k \in RequiredKeys \ {"currency"} : k \notin DOMAIN cfg

\* config['equity_name'] ... config['currency']: a missing key raises.
KeyError(cfg) == \E k \in RequiredKeys : k \notin DOMAIN cfg

\* The copy made without looking at the target.
path_exists_Unchecked(file) == FALSE

\* os.path.exists(new_file)
path_exists(file) == file.exists

\* __main__ calls main, which reads the four config keys.
MainStart ==
    /\ pc = "idle"
    /\ \E c \in Configs : config' = c
    /\ files_at_start' = [previous_file |-> prev_file, new_file |-> new_file]
    /\ UNCHANGED <<session_new, session_prev, account_balances, equity_placeholder_account,
                   equity_account, purge_accounts, purge_splits, item, saved, copied>>
    /\ IF KeyError(config')
       THEN Terminate("KeyError")
       ELSE pc' = "prepare" /\ error' = "none" /\ exit_code' = "none"
    /\ UNCHANGED <<prev_file, new_file>>

\* prepare_new_year_file: the target exists.
PrepareFileExists ==
    /\ pc = "prepare"
    /\ path_exists(new_file)
    /\ Terminate("FileExistsError")
    /\ UNCHANGED <<prev_file, new_file, config, session_new, session_prev, account_balances,
                   equity_placeholder_account, equity_account, purge_accounts, purge_splits,
                   item, saved, copied, files_at_start>>

\* prepare_new_year_file: the previous year's file is copied.
PrepareCopy ==
    /\ pc = "prepare"
    /\ ~path_exists(new_file)
    /\ new_file' = [exists |-> TRUE, book |-> prev_file]
    /\ copied' = TRUE
    /\ pc' = "open_new"
    /\ UNCHANGED <<prev_file, config, session_new, session_prev, account_balances,
                   equity_placeholder_account, equity_account, purge_accounts, purge_splits,
                   item, error, exit_code, saved, files_at_start>>

\* prepare_new_year_file: the session on the copy is opened and its accounts listed.
PrepareOpen ==
    /\ pc = "open_new"
    /\ session_new' = [state |-> "open", book |-> new_file.book]
    /\ purge_accounts' = get_descendants(new_file.book.accounts, 0)
    /\ purge_splits' = <<>>
    /\ pc' = "purge_account"
    /\ UNCHANGED <<prev_file, new_file, config, session_prev, account_balances,
                   equity_placeholder_account, equity_account, item, error, exit_code,
                   saved, copied, files_at_start>>

RECURSIVE SplitIdsOf(_, _)
SplitIdsOf(spl, account) ==
    IF spl = <<>> THEN <<>>
    ELSE (IF Head(spl).account = account THEN <<Head(spl).id>> ELSE <<>>)
            \o SplitIdsOf(Tail(spl), account)

GetSplitList(book, account) == SplitIdsOf(book.splits, account)

SplitById(book, id) == CHOOSE s \in { book.splits[i] : i \in 1..Len(book.splits) } : s.id = id

IsLive(book, id) == \E i \in 1..Len(book.splits) : book.splits[i].id = id

RECURSIVE RemoveSplitsOf(_, _)
RemoveSplitsOf(spl, transaction) ==
    IF spl = <<>> THEN <<>>
    ELSE (IF Head(spl).parent = transaction THEN <<>> ELSE <<Head(spl)>>)
            \o RemoveSplitsOf(Tail(spl), transaction)

\* Only the splits are removed; the transaction stays in the book.
Destroy_SplitsOnly(book, transaction) ==
    [book EXCEPT !.splits = RemoveSplitsOf(book.splits, transaction)]

\* transaction.Destroy(): the transaction and its splits leave the book.
Destroy(book, transaction) ==
    [book EXCEPT !.splits = RemoveSplitsOf(book.splits, transaction),
                 !.transactions = { t \in book.transactions : t.id # transaction }]

\* prepare_new_year_file: the outer loop takes the next account, or returns.
PurgeAccount ==
    /\ pc = "purge_account"
    /\ IF purge_accounts = <<>>
       THEN /\ pc' = "open_prev"
            /\ UNCHANGED <<purge_accounts, purge_splits>>
       ELSE /\ purge_splits' = GetSplitList(session_new.book, Head(purge_accounts))
            /\ purge_accounts' = Tail(purge_accounts)
            /\ pc' = "purge_split"
    /\ UNCHANGED <<prev_file, new_file, config, session_new, session_prev, account_balances,
                   equity_placeholder_account, equity_account, item, error, exit_code,
                   saved, copied, files_at_start>>

\* prepare_new_year_file: the inner loop visits a split that is still in the book.
PurgeSplit ==
    /\ pc = "purge_split"
    /\ IF purge_splits = <<>>
       THEN /\ pc' = "purge_account"
            /\ UNCHANGED <<purge_splits, session_new>>
       ELSE /\ IsLive(session_new.book, Head(purge_splits))
            /\ LET transaction == SplitById(session_new.book, Head(purge_splits)).parent
               IN session_new' =
                    IF transaction = NoTransaction THEN session_new
                    ELSE [session_new EXCEPT !.book = Destroy(session_new.book, transaction)]
            /\ purge_splits' = Tail(purge_splits)
            /\ pc' = "purge_split"
    /\ UNCHANGED <<prev_file, new_file, config, session_prev, account_balances,
                   equity_placeholder_account, equity_account, purge_accounts, item, error,
                   exit_code, saved, copied, files_at_start>>

\* prepare_new_year_file: the inner loop visits a split that was freed when an
\* earlier split of its transaction was visited. Reading split.parent is a read
\* of freed memory: the split reads as parentless and is skipped ...
PurgeFreedSplitSkipped ==
    /\ pc = "purge_split"
    /\ purge_splits # <<>>
    /\ ~IsLive(session_new.book, Head(purge_splits))
    /\ purge_splits' = Tail(purge_splits)
    /\ UNCHANGED <<prev_file, new_file, pc, config, session_new, session_prev,
                   account_balances, equity_placeholder_account, equity_account,
                   purge_accounts, item, error, exit_code, saved, copied, files_at_start>>

\* ... or the process dies on the read, with no handler run.
PurgeFreedSplitCrash ==
    /\ pc = "purge_split"
    /\ purge_splits # <<>>
    /\ ~IsLive(session_new.book, Head(purge_splits))
    /\ pc' = "exited"
    /\ error' = "crash"
    /\ exit_code' = "SIGSEGV"
    /\ UNCHANGED <<prev_file, new_file, config, session_new, session_prev, account_balances,
                   equity_placeholder_account, equity_account, purge_accounts, purge_splits,
                   item, saved, copied, files_at_start>>

\* main: the previous year's file is opened read-only.
OpenPrev ==
    /\ pc = "open_prev"
    /\ session_prev' = [state |-> "open", book |-> prev_file]
    /\ pc' = "balances"
    /\ UNCHANGED <<prev_file, new_file, config, session_new, account_balances,
                   equity_placeholder_account, equity_account, purge_accounts, purge_splits,
                   item, error, exit_code, saved, copied, files_at_start>>

\* main: the balances are read from the previous year's book.
ReadBalances ==
    /\ pc = "balances"
    /\ account_balances' = get_account_balances(session_prev.book)
    /\ pc' = "equity_placeholder"
    /\ UNCHANGED <<prev_file, new_file, config, session_new, session_prev,
                   equity_placeholder_account, equity_account, purge_accounts, purge_splits,
                   item, error, exit_code, saved, copied, files_at_start>>

\* book_new.get_table().lookup("CURRENCY", currency)
lookup_currency(currency) == IF currency \in Commodities THEN currency ELSE NoCommodity

NewAccount ==
    [name |-> <<>>, parent |-> NoAccount, type |-> "NONE", placeholder |-> FALSE,
     commodity |-> NoCommodity]

\* main: the equity placeholder account is looked up, and created if absent.
EquityPlaceholder ==
    /\ pc = "equity_placeholder"
    /\ LET accs == session_new.book.accounts
           found == lookup_by_full_name(accs, config.equity_name)
       IN IF found # NoAccount
          THEN /\ equity_placeholder_account' = found
               /\ UNCHANGED session_new
          ELSE /\ equity_placeholder_account' = NumAccounts(accs) + 1
               /\ session_new' = [session_new EXCEPT !.book.accounts =
                      append_child(accs, 0,
                          [NewAccount EXCEPT !.name = config.equity_name,
                                             !.type = ACCT_TYPE_EQUITY,
                                             !.placeholder = TRUE])]
    /\ pc' = "equity_account"
    /\ UNCHANGED <<prev_file, new_file, config, session_prev, account_balances,
                   equity_account, purge_accounts, purge_splits, item, error, exit_code,
                   saved, copied, files_at_start>>

\* main: the equity opening-balances account is looked up, and created if absent.
EquityAccount ==
    /\ pc = "equity_account"
    /\ LET accs == session_new.book.accounts
           equity_opening_full_name ==
               config.equity_name \o <<".">> \o config.equity_opening_name
           found == lookup_by_full_name(accs, equity_opening_full_name)
       IN IF found # NoAccount
          THEN /\ equity_account' = found
               /\ UNCHANGED session_new
          ELSE /\ equity_account' = NumAccounts(accs) + 1
               /\ session_new' = [session_new EXCEPT !.book.accounts =
                      append_child(accs, equity_placeholder_account,
                          [NewAccount EXCEPT !.name = config.equity_opening_name,
                                             !.type = ACCT_TYPE_EQUITY,
                                             !.commodity = lookup_currency(config.currency)])]
    /\ item' = 1
    /\ pc' = "synthesis"
    /\ UNCHANGED <<prev_file, new_file, config, session_prev, account_balances,
                   equity_placeholder_account, purge_accounts, purge_splits, error,
                   exit_code, saved, copied, files_at_start>>

FreshId(ids) == IF ids = {} THEN 1 ELSE 1 + CHOOSE m \in ids : \A x \in ids : x <= m

\* The body of the loop of main for one item of account_balances with a
\* nonzero balance: the book after the transaction is committed.
OpeningTransaction(book, account_name, balance, equity, cfg) ==
    LET found == lookup_by_full_name(book.accounts, account_name)
        accs == IF found # NoAccount THEN book.accounts
                ELSE append_child(book.accounts, 0, [NewAccount EXCEPT !.name = account_name])
        account == IF found # NoAccount THEN found ELSE NumAccounts(book.accounts) + 1
        transaction == FreshId({ t.id : t \in book.transactions })
        split_id == FreshId({ book.splits[i].id : i \in 1..Len(book.splits) })
        asset_commodity == accs[account].commodity
        equity_commodity == accs[equity].commodity
        equity_value == IF asset_commodity = equity_commodity THEN balance
                        ELSE convert_balance_nearest_price_t64(
                                 balance, asset_commodity, equity_commodity)
        split_asset == [id |-> split_id, account |-> account, parent |-> transaction,
                        amount |-> balance, value |-> equity_value]
        split_equity == [id |-> split_id + 1, account |-> equity, parent |-> transaction,
                         amount |-> neg(equity_value), value |-> neg(equity_value)]
    IN [accounts |-> accs,
        splits |-> book.splits \o <<split_asset, split_equity>>,
        transactions |-> book.transactions \cup
            {[id |-> transaction, description |-> cfg.opening_transaction_text,
              currency |-> lookup_currency(cfg.currency), date |-> OpeningDate]}]

\* main: one turn of the loop over account_balances, or its end.
Synthesis ==
    /\ pc = "synthesis"
    /\ IF item > Len(account_balances)
       THEN /\ pc' = "save"
            /\ UNCHANGED <<item, session_new>>
       ELSE /\ session_new' =
                 IF account_balances[item].balance # 0
                 THEN [session_new EXCEPT !.book =
                          OpeningTransaction(session_new.book, account_balances[item].name,
                              account_balances[item].balance, equity_account, config)]
                 ELSE session_new
            /\ item' = item + 1
            /\ pc' = "synthesis"
    /\ UNCHANGED <<prev_file, new_file, config, session_prev, account_balances,
                   equity_placeholder_account, equity_account, purge_accounts, purge_splits,
                   error, exit_code, saved, copied, files_at_start>>

\* main: session_new.save()
Save ==
    /\ pc = "save"
    /\ new_file' = [exists |-> TRUE, book |-> session_new.book]
    /\ saved' = TRUE
    /\ pc' = "end_new"
    /\ UNCHANGED <<prev_file, config, session_new, session_prev, account_balances,
                   equity_placeholder_account, equity_account, purge_accounts, purge_splits,
                   item, error, exit_code, copied, files_at_start>>

\* main: session_new.end()
EndNew ==
    /\ pc = "end_new"
    /\ session_new' = [session_new EXCEPT !.state = "ended"]
    /\ pc' = "end_prev"
    /\ UNCHANGED <<prev_file, new_file, config, session_prev, account_balances,
                   equity_placeholder_account, equity_account, purge_accounts, purge_splits,
                   item, error, exit_code, saved, copied, files_at_start>>

\* main: session_prev.end(); main returns and the process exits with status 0.
EndPrev ==
    /\ pc = "end_prev"
    /\ session_prev' = [session_prev EXCEPT !.state = "ended"]
    /\ pc' = "exited"
    /\ exit_code' = "0"
    /\ UNCHANGED <<prev_file, new_file, config, session_new, account_balances,
                   equity_placeholder_account, equity_account, purge_accounts, purge_splits,
                   item, error, saved, copied, files_at_start>>

\* A handler that removes the partly made new file before it exits.
Raise_RemovingNewFile ==
    /\ pc \in {"open_new", "purge_account", "purge_split", "open_prev", "balances",
               "equity_placeholder", "equity_account", "synthesis", "save", "end_new",
               "end_prev"}
    /\ Terminate("Exception")
    /\ new_file' = NoFile
    /\ UNCHANGED <<prev_file, config, session_new, session_prev, account_balances,
                   equity_placeholder_account, equity_account, purge_accounts, purge_splits,
                   item, saved, copied, files_at_start>>

\* The places of main after the copy where a call into the ledger library can
\* raise (a locked or unreadable file, a backend error, a full disk).
RaisePoints ==
    {"open_new", "purge_account", "purge_split", "open_prev", "balances",
     "equity_placeholder", "equity_account", "synthesis", "save", "end_new", "end_prev"}

Raise ==
    /\ pc \in RaisePoints
    /\ Terminate("Exception")
    /\ UNCHANGED <<prev_file, new_file, config, session_new, session_prev, account_balances,
                   equity_placeholder_account, equity_account, purge_accounts, purge_splits,
                   item, saved, copied, files_at_start>>

\* The process is gone; the tool can be run again.
ProcessEnd ==
    /\ pc = "exited"
    /\ pc' = "idle"
    /\ ProcessReset
    /\ config' = CompleteConfig(<<"Equity">>)
    /\ error' = "none"
    /\ exit_code' = "none"
    /\ files_at_start' = NoFiles
    /\ UNCHANGED <<prev_file, new_file>>

\* Between two runs somebody removes the new year's file.
RemoveNewFile ==
    /\ pc = "idle"
    /\ new_file.exists
    /\ new_file' = NoFile
    /\ UNCHANGED <<prev_file, pc, config, session_new, session_prev, account_balances,
                   equity_placeholder_account, equity_account, purge_accounts, purge_splits,
                   item, error, exit_code, saved, copied, files_at_start>>

Next ==
    \/ MainStart
    \/ PrepareFileExists
    \/ PrepareCopy
    \/ PrepareOpen
    \/ PurgeAccount
    \/ PurgeSplit
    \/ PurgeFreedSplitSkipped
    \/ PurgeFreedSplitCrash
    \/ OpenPrev
    \/ ReadBalances
    \/ EquityPlaceholder
    \/ EquityAccount
    \/ Synthesis
    \/ Save
    \/ EndNew
    \/ EndPrev
    \/ Raise
    \/ ProcessEnd
    \/ RemoveNewFile

Spec == Init /\ [][Next]_vars

\* ------------------------------------------- get_account_balances alone
InitBalances ==
    /\ prev_file \in BalanceBooks
    /\ new_file = NoFile
    /\ pc = "get_account_balances"
    /\ config = CompleteConfig(<<"Equity">>)
    /\ session_new = NoSession
    /\ session_prev = NoSession
    /\ account_balances = <<>>
    /\ equity_placeholder_account = NoAccount
    /\ equity_account = NoAccount
    /\ purge_accounts = <<>>
    /\ purge_splits = <<>>
    /\ item = 1
    /\ error = "none"
    /\ exit_code = "none"
    /\ saved = FALSE
    /\ copied = FALSE
    /\ files_at_start = NoFiles

GetAccountBalances ==
    /\ pc = "get_account_balances"
    /\ account_balances' = get_account_balances(prev_file)
    /\ pc' = "returned"
    /\ UNCHANGED <<prev_file, new_file, config, session_new, session_prev,
                   equity_placeholder_account, equity_account, purge_accounts, purge_splits,
                   item, error, exit_code, saved, copied, files_at_start>>

NextBalances == GetAccountBalances

SpecBalances == InitBalances /\ [][NextBalances]_vars

\* ================================================================ claims
Keys(balances) == { balances[i].name : i \in 1..Len(balances) }

\* The accounts that are to be carried forward: not a placeholder, and of a
\* type other than income, expense, trading, root and equity.
CarriedForward(book) ==
    { a \in DOMAIN book.accounts :
        /\ ~book.accounts[a].placeholder
        /\ book.accounts[a].type \notin {"INCOME", "EXPENSE", "TRADING", "ROOT", "EQUITY"} }

RECURSIVE HasExcludedAncestor(_, _)
HasExcludedAncestor(accs, a) ==
    IF a = 0 \/ accs[a].parent = 0 THEN FALSE
    ELSE \/ accs[accs[a].parent].type \in {"INCOME", "EXPENSE", "TRADING", "EQUITY"}
         \/ HasExcludedAncestor(accs, accs[a].parent)

\* C7: no account below an account of an excluded type (income, expense,
\* trading, equity) is in the result of get_account_balances.
C7_DescendantsOfExcludedAbsent ==
    pc = "returned" =>
        \A a \in DOMAIN prev_file.accounts :
            HasExcludedAncestor(prev_file.accounts, a)
                => get_full_name(prev_file.accounts, a) \notin Keys(account_balances)

\* The splits of a transaction, in the order in which they were made.
RECURSIVE SplitsOf(_, _)
SplitsOf(spl, transaction) ==
    IF spl = <<>> THEN <<>>
    ELSE (IF Head(spl).parent = transaction THEN <<Head(spl)>> ELSE <<>>)
            \o SplitsOf(Tail(spl), transaction)

\* The transactions made by the loop of main carry the opening date.
OpeningTransactions(book) == { t \in book.transactions : t.date = "opening_date" }

\* The transactions of a book whose first split is on the account of that full name.
TransactionsFor(book, name) ==
    { t \in book.transactions :
        /\ SplitsOf(book.splits, t.id) # <<>>
        /\ get_full_name(book.accounts, SplitsOf(book.splits, t.id)[1].account) = name }

Succeeded == pc = "exited" /\ exit_code = "0"

\* C2: after a successful run the transactions of the new book correspond one
\* to one to the items of the balance snapshot with a nonzero balance: one
\* transaction for every previous-year account that is carried forward and has
\* a nonzero balance, none for a zero balance, an excluded type or a placeholder.
C2_OneTransactionPerNonzeroBalance ==
    Succeeded =>
        LET book == new_file.book
            nonzero == { i \in 1..Len(account_balances) : account_balances[i].balance # 0 }
        IN /\ Cardinality(book.transactions) = Cardinality(nonzero)
           /\ \A i \in nonzero :
                 Cardinality(TransactionsFor(book, account_balances[i].name)) = 1
           /\ \A a \in DOMAIN prev_file.accounts :
                 Cardinality(TransactionsFor(book, get_full_name(prev_file.accounts, a)))
                     = IF a \in CarriedForward(prev_file) /\ GetBalance(prev_file, a) # 0
                       THEN 1 ELSE 0

\* A run succeeded on a book with a nonzero account, a zero-balance account and
\* old transactions.
C2_Witness ==
    /\ Succeeded
    /\ prev_file.transactions # {}
    /\ \E a, b \in CarriedForward(prev_file) :
          /\ GetBalance(prev_file, a) # 0
          /\ GetBalance(prev_file, b) = 0
          /\ TransactionsFor(new_file.book, get_full_name(prev_file.accounts, a)) # {}

\* C3: every transaction committed by the loop of main has exactly two splits,
\* the first on the carried-forward account with the balance as its amount, the
\* second on the equity opening-balances account, and the values of the two
\* sum to zero, with or without a conversion.
C3_OpeningTransactionBalanced ==
    /\ \A t \in OpeningTransactions(session_new.book) :
          LET book == session_new.book
              ss == SplitsOf(book.splits, t.id)
          IN /\ Len(ss) = 2
             /\ \E i \in 1..Len(account_balances) :
                   /\ account_balances[i].balance # 0
                   /\ account_balances[i].name = get_full_name(book.accounts, ss[1].account)
                   /\ ss[1].amount = account_balances[i].balance
             /\ ss[2].account = equity_account
             /\ ss[1].value + ss[2].value = 0
    /\ \A t \in OpeningTransactions(new_file.book) :
          LET ss == SplitsOf(new_file.book.splits, t.id)
          IN Len(ss) = 2 /\ ss[1].value + ss[2].value = 0

\* One opening transaction without a conversion and one with.
C3_Witness ==
    /\ Succeeded
    /\ \E t, u \in OpeningTransactions(session_new.book) :
          LET book == session_new.book
              st == SplitsOf(book.splits, t.id)
              su == SplitsOf(book.splits, u.id)
          IN /\ book.accounts[st[1].account].commodity = book.accounts[st[2].account].commodity
             /\ st[1].value = st[1].amount
             /\ book.accounts[su[1].account].commodity # book.accounts[su[2].account].commodity
             /\ su[1].value # su[1].amount

\* C4: when the process has exited, on whatever path, neither session is open.
C4_SessionsClosedOnEveryExit ==
    pc = "exited" => session_new.state # "open" /\ session_prev.state # "open"

\* C5: when prepare_new_year_file has returned, the new book has the account
\* hierarchy of the previous book, no transaction and no split.
C5_PreparedBookEmpty ==
    pc = "open_prev" =>
        /\ session_new.book.accounts = prev_file.accounts
        /\ session_new.book.transactions = {}
        /\ session_new.book.splits = <<>>

\* What a run that found new_file in place has done so far: nothing.
NothingDone ==
    /\ pc \in {"prepare", "exited"}
    /\ ~copied
    /\ ~saved
    /\ session_new.state = "none"
    /\ session_prev.state = "none"
    /\ new_file = files_at_start.new_file
    /\ prev_file = files_at_start.previous_file

\* C6 as stated: a run that finds new_file in place fails with the file-exists
\* error before the copy and before a session is opened, and changes no file.
C6_Original ==
    (pc # "idle" /\ files_at_start.new_file.exists) =>
        /\ NothingDone
        /\ pc = "exited" => error = "FileExistsError"

\* C6: a run that finds new_file in place and whose config has the four keys
\* fails with the file-exists error, and one whose config lacks a key fails with
\* the key-lookup error; either way before the copy and before a session is
\* opened, with exit status 1, and no file is changed.
C6_ExistingTargetFailsUntouched ==
    (pc # "idle" /\ files_at_start.new_file.exists) =>
        /\ NothingDone
        /\ pc = "exited" =>
              /\ exit_code = "1"
              /\ error = IF RequiredKeys \subseteq DOMAIN config
                         THEN "FileExistsError" ELSE "KeyError"

\* A second run on the result of a successful run has failed.
C6_Witness ==
    /\ pc = "exited"
    /\ error = "FileExistsError"
    /\ files_at_start.new_file.exists
    /\ OpeningTransactions(new_file.book) # {}

\* C8: a run whose config lacks one of the four keys fails with the key-lookup
\* error and exit status 1; it makes no copy, opens no session and never saves.
C8_MissingKeyFailsUnsaved ==
    (pc # "idle" /\ ~(RequiredKeys \subseteq DOMAIN config)) =>
        /\ pc = "exited"
        /\ error = "KeyError"
        /\ exit_code = "1"
        /\ ~saved
        /\ ~copied
        /\ session_new.state = "none"
        /\ new_file = files_at_start.new_file

C8_Witness ==
    /\ pc = "exited"
    /\ error = "KeyError"
    /\ exit_code = "1"
    /\ "currency" \notin DOMAIN config
    /\ ~new_file.exists

\* C9: in every split made by the loop of main whose account has the
\* transaction's currency as its commodity, the amount equals the value.
C9_AmountIsValueInTransactionCurrency ==
    \A t \in OpeningTransactions(session_new.book) :
        \A i \in 1..Len(session_new.book.splits) :
            LET s == session_new.book.splits[i]
            IN (s.parent = t.id /\ session_new.book.accounts[s.account].commodity = t.currency)
                   => s.amount = s.value

\* C10 as stated: a run that fails after the copy leaves new_file in place, and
\* every run that finds it in place fails with the file-exists error before the copy.
C10_Original ==
    /\ copied => new_file.exists
    /\ (pc # "idle" /\ files_at_start.new_file.exists) =>
          /\ ~copied
          /\ pc \in {"prepare", "exited"}
          /\ pc = "exited" => error = "FileExistsError"

\* C10: a run that fails after the copy leaves new_file in place, and every run
\* that finds it in place fails before the copy: with the file-exists error, or
\* with the key-lookup error if its config lacks a key.
C10_FailedRunBlocksLaterRuns ==
    /\ copied => new_file.exists
    /\ (pc # "idle" /\ files_at_start.new_file.exists) =>
          /\ ~copied
          /\ pc \in {"prepare", "exited"}
          /\ pc = "exited" =>
                /\ exit_code = "1"
                /\ error \in {"FileExistsError", "KeyError"}
                /\ error = "KeyError" <=> ~(RequiredKeys \subseteq DOMAIN config)

\* A run has failed on a new_file that an earlier, failed run left: the file
\* still holds the previous year's transactions.
C10_Witness ==
    /\ pc = "exited"
    /\ error = "FileExistsError"
    /\ files_at_start.new_file.exists
    /\ \E t \in new_file.book.transactions : t.description = "old"

====
